---------------------------- MODULE Spec2Model ----------------------------
(***************************************************************************)
(* A model of graphics_buffer: the RenderBuffer software rasterizer        *)
(* (src/src/lib.rs) and the BufferGlyphs character cache                   *)
(* (src/src/glyphs.rs).                                                    *)
(*                                                                         *)
(* Number representation.  Vertex coordinates are f32 in the source; here  *)
(* they are integers counting HALF pixels (3 stands for 1.5), so floor and *)
(* ceil are real conversions.  Colour channels are f32 in the source; here *)
(* they are exact fractions <<n, d>> in lowest terms (d > 0), and the one  *)
(* irrational the code produces, the square root in layer_color's alpha,   *)
(* is kept as a tagged radicand.  Arithmetic is exact where f32 rounds.    *)
(*                                                                         *)
(* Three specifications share the state: Spec is one RenderBuffer and the  *)
(* draw calls made on it, SpecGlyphs one BufferGlyphs and the character    *)
(* requests made on it, SpecCreate the calls of CreateTexture::create.     *)
(***************************************************************************)
EXTENDS Integers, Sequences, FiniteSets, TLC

\* ------------------------------------------------------------- bounds
Width == 3
Height == 3
TexWidth == 2
TexHeight == 2
NumWorkers == 2
MaxTris == 2
MaxCalls == 1

\* The largest value a u8 channel holds, the scale of both conversions.
ByteMax == 255

\* ------------------------------------------------------ exact fractions
Abs(i) == IF i < 0 THEN -i ELSE i

Min2(a, b) == IF a < b THEN a ELSE b

Max2(a, b) == IF a > b THEN a ELSE b

RECURSIVE Gcd(_, _)
Gcd(a, b) == IF b = 0 THEN a ELSE Gcd(b, a % b)

\* The fraction n/d (d # 0) in lowest terms with a positive denominator.
Frac(n, d) ==
    LET g == Gcd(Abs(n), Abs(d))
        s == IF d < 0 THEN -1 ELSE 1
    IN  <<(s * n) \div g, (s * d) \div g>>

FZero == <<0, 1>>

FOne == <<1, 1>>

FAdd(p, q) ==
    LET g == Gcd(p[2], q[2])
    IN  Frac(p[1] * (q[2] \div g) + q[1] * (p[2] \div g), (p[2] \div g) * q[2])

FNeg(p) == <<-p[1], p[2]>>

FSub(p, q) == FAdd(p, FNeg(q))

FMul(p, q) ==
    LET g1 == Gcd(Abs(p[1]), q[2])
        g2 == Gcd(Abs(q[1]), p[2])
    IN  <<(p[1] \div g1) * (q[1] \div g2), (p[2] \div g2) * (q[2] \div g1)>>

FLess(p, q) == p[1] * q[2] < q[1] * p[2]

\* floor of a fraction.
FFloor(p) == p[1] \div p[2]

RECURSIVE Newton(_, _)
Newton(n, x) ==
    LET y == (x + n \div x) \div 2
    IN  IF y >= x THEN x ELSE Newton(n, y)

\* floor(sqrt(n)) for n >= 0.
ISqrt(n) == IF n = 0 THEN 0 ELSE Newton(n, n)

IsSquare(n) == ISqrt(n) * ISqrt(n) = n

\* A real is a fraction <<n, d>> or a surd <<n, d, 2>> standing for sqrt(n/d).
IsSurd(v) == Len(v) = 3

\* f32::sqrt of a non-negative fraction: exact when the radicand is a square.
RSqrt(q) ==
    IF IsSquare(q[1]) /\ IsSquare(q[2])
    THEN <<ISqrt(q[1]), ISqrt(q[2])>>
    ELSE <<q[1], q[2], 2>>

\* f32::min(v, 1.0) of a non-negative real.
RMinOne(v) ==
    IF IsSurd(v)
    THEN IF v[1] >= v[2] THEN FOne ELSE v
    ELSE IF FLess(FOne, v) THEN FOne ELSE v

\* ------------------------------------------------------------- colours
\* lib.rs:367-374.  (c * 255.0) as u8 of one channel: the product is cut
\* toward zero, and the cast saturates at 0 and 255.
ChannelToByte(v) ==
    LET scaled == IF IsSurd(v)
                  THEN ISqrt(FFloor(FMul(<<ByteMax * ByteMax, 1>>, <<v[1], v[2]>>)))
                  ELSE IF v[1] < 0 THEN 0 ELSE FFloor(FMul(<<ByteMax, 1>>, v))
    IN  Min2(ByteMax, Max2(0, scaled))

color_f32_rgba(c) ==
    <<ChannelToByte(c[1]), ChannelToByte(c[2]), ChannelToByte(c[3]), ChannelToByte(c[4])>>

\* lib.rs:376-383.  f32::from(byte) / 255.0
color_rgba_f32(p) ==
    <<Frac(p[1], ByteMax), Frac(p[2], ByteMax), Frac(p[3], ByteMax), Frac(p[4], ByteMax)>>

\* lib.rs:385-387.
color_mul(a, b) ==
    <<FMul(a[1], b[1]), FMul(a[2], b[2]), FMul(a[3], b[3]), FMul(a[4], b[4])>>

\* A layering whose alpha is the sum in quadrature left unclamped.
layer_color_unclamped(over, under) ==
    LET inv == FSub(FOne, over[4])
        over_weight == FSub(FOne, FMul(inv, inv))
        under_weight == FSub(FOne, over_weight)
        Mix(i) == FAdd(FMul(over_weight, over[i]), FMul(under_weight, under[i]))
    IN  <<Mix(1), Mix(2), Mix(3),
          RSqrt(FAdd(FMul(over[4], over[4]), FMul(under[4], under[4])))>>

\* lib.rs:389-398.
layer_color(over, under) ==
    LET inv == FSub(FOne, over[4])
        over_weight == FSub(FOne, FMul(inv, inv))
        under_weight == FSub(FOne, over_weight)
        Mix(i) == FAdd(FMul(over_weight, over[i]), FMul(under_weight, under[i]))
    IN  <<Mix(1), Mix(2), Mix(3),
          RMinOne(RSqrt(FAdd(FMul(over[4], over[4]), FMul(under[4], under[4]))))>>

\* ------------------------------------------------------------ geometry
\* A vertex is <<x, y>> in half pixels; a pixel centre (x, y) is <<2x, 2y>>.
Centre(x, y) == <<2 * x, 2 * y>>

\* f32::floor and f32::ceil of a half-pixel coordinate, as an i32.
FloorHalf(k) == k \div 2

CeilHalf(k) == (k + 1) \div 2

\* lib.rs:400-402 (four times the source's value: both factors are doubled).
sign(p1, p2, p3) ==
    (p1[1] - p3[1]) * (p2[2] - p3[2]) - (p2[1] - p3[1]) * (p1[2] - p3[2])

\* lib.rs:404-409.
triangle_contains(t, point) ==
    LET b1 == sign(point, t[1], t[2]) < 0
        b2 == sign(point, t[2], t[3]) < 0
        b3 == sign(point, t[3], t[1]) < 0
    IN  (b1 = b2) /\ (b2 = b3)

\* lib.rs:246-253 and 308-315.  The running minimum and maximum both
\* start from 0.0, not from the first vertex.
BoundLow(t, i) == Min2(Min2(0, t[1][i]), Min2(t[2][i], t[3][i]))

BoundHigh(t, i) == Max2(Max2(0, t[1][i]), Max2(t[2][i], t[3][i]))

\* The buffer extent along axis i (1 = x, 2 = y): self.width(), self.height().
Extent(i) == IF i = 1 THEN Width ELSE Height

\* lib.rs:254 and 316.  tl[i] = low.floor().max(0.0) as i32
TopLeft(t, i) == Max2(0, FloorHalf(BoundLow(t, i)))

\* lib.rs:255-258.  br[i] = high.ceil().min(extent as f32) as i32
FlatBottomRight(t, i) == Min2(CeilHalf(BoundHigh(t, i)), Extent(i))

\* lib.rs:317-320.  br[i] = high.ceil().min((extent - 1) as f32) as i32
UvBottomRight(t, i) == Min2(CeilHalf(BoundHigh(t, i)), Extent(i) - 1)

BottomRight(m, t, i) ==
    IF m = "flat" THEN FlatBottomRight(t, i) ELSE UvBottomRight(t, i)

\* An f32 cut toward zero by `as i32`: n / d for d > 0.
TruncDiv(n, d) == IF n < 0 THEN -((-n) \div d) ELSE n \div d

\* lib.rs:321-323.  The sum of three half-pixel ordinates over 3.0 is n / 6.
vertical_balance_top(t) ==
    LET avg_y == TruncDiv(t[1][2] + t[2][2] + t[3][2], 6)
        vert_center == TruncDiv(UvBottomRight(t, 2) - TopLeft(t, 2), 2)
    IN  avg_y < vert_center

\* lib.rs:432-442.  A uv vertex is in half units of the normalised square,
\* so the scaled vertex is uv * size / 2, a fraction of a texel.
point_image_scale(point) == <<Frac(point[1] * TexWidth, 2), Frac(point[2] * TexHeight, 2)>>

tri_image_scale(t) ==
    <<point_image_scale(t[1]), point_image_scale(t[2]), point_image_scale(t[3])>>

\* lib.rs:411-430.  from_tri and point are in half pixels, so ae_cf and both
\* numerators carry the same factor 4, which the quotients cancel.  With
\* ae_cf = 0 the quotients are NaN or infinite and so is every sum built on
\* them: finite is FALSE and x, y carry no value.
map_to_triangle(point, t, to_tri) ==
    LET a == t[2][2] - t[3][2]
        b == point[1] - t[3][1]
        c == t[3][1] - t[2][1]
        d == point[2] - t[3][2]
        e == t[1][1] - t[3][1]
        f == t[1][2] - t[3][2]
        g == t[3][2] - t[1][2]
        ae_cf == a * e + c * f
    IN  IF ae_cf = 0
        THEN [finite |-> FALSE, x |-> FZero, y |-> FZero]
        ELSE LET bary_a == Frac(a * b + c * d, ae_cf)
                 bary_b == Frac(g * b + e * d, ae_cf)
                 bary_c == FSub(FSub(FOne, bary_a), bary_b)
                 Mapped(i) == FAdd(FAdd(FMul(bary_a, to_tri[1][i]),
                                        FMul(bary_b, to_tri[2][i])),
                                   FMul(bary_c, to_tri[3][i]))
             IN  [finite |-> TRUE, x |-> Mapped(1), y |-> Mapped(2)]

\* f32::round (halves away from zero) followed by `as u32`, which cuts a
\* negative value to 0.
RoundU32(p) == IF p[1] < 0 THEN 0 ELSE (2 * p[1] + p[2]) \div (2 * p[2])

\* lib.rs:340-343.  The texel coordinates the sample may read.  A finite
\* point gives one; a NaN or infinite one goes through `as u32`, whose
\* result for such a value the language left undefined when this code was
\* written, and .min(size - 1) then leaves any index of the texture.
SampleCoords(mp) ==
    IF mp.finite
    THEN {<<Min2(RoundU32(mp.x), TexWidth - 1), Min2(RoundU32(mp.y), TexHeight - 1)>>}
    ELSE (0..(TexWidth - 1)) \X (0..(TexHeight - 1))

\* --------------------------------------------------------------- inputs
Xs == 0..(Width - 1)

Ys == 0..(Height - 1)

Workers == 1..NumWorkers

\* The vertices a caller passes, in half pixels: the corners of a square
\* reaching half a pixel past the buffer on every side, and the centre of
\* pixel (1, 1), which lies on the square's diagonal.
Far(i) == 2 * Extent(i) + 1

Vertices == {<<-1, -1>>, <<Far(1), -1>>, <<-1, Far(2)>>, <<Far(1), Far(2)>>, <<2, 2>>}

\* The triangles a caller passes: those that start at the square's first
\* corner, in both windings, and the three-times-repeated vertex.
Triangles ==
    {t \in Vertices \X Vertices \X Vertices : t[1] = <<-1, -1>>}
        \cup {<<v, v, v>> : v \in Vertices}

\* uv triangles, in half units of the unit square: its lower-left half.
TexTriangles == {<<<<0, 0>>, <<2, 0>>, <<0, 2>>>>}

NoTriangle == <<<<0, 0>>, <<0, 0>>, <<0, 0>>>>

HalfRed == <<FOne, FZero, FZero, <<1, 2>>>>

OpaqueWhite == <<FOne, FOne, FOne, FOne>>

OpaqueBlack == <<FZero, FZero, FZero, FOne>>

\* The colours a caller draws with, and those it clears the buffer to.
DrawColors == {HalfRed}

ClearColors == {OpaqueBlack}

\* The texture passed to tri_list_uv: a checkerboard of opaque white and
\* half-transparent white texels.
Texture == [i \in 0..(TexWidth - 1) |-> [j \in 0..(TexHeight - 1) |->
              IF (i + j) % 2 = 0 THEN <<ByteMax, ByteMax, ByteMax, ByteMax>>
                                 ELSE <<ByteMax, ByteMax, ByteMax, 0>>]]

\* ---------------------------------------------------------------- state
VARIABLES
    pixels,     \* self.inner: pixels[x][y] is an Rgba<u8>
    used,       \* self.used: used[x][y] is bit y of column x's BitVec
    pc,         \* "idle": no call; "ready": in a draw call, between
                \* triangles; "fill": a triangle's parallel column loop
    mode,       \* "flat" in tri_list, "uv" in tri_list_uv, "none" before
    color,      \* the draw call's color argument
    tri,        \* the destination triangle being filled
    tex_tri,    \* its uv triangle (tri_list_uv)
    todo,       \* columns of tl[0]..br[0] the parallel iterator still holds
    workers,    \* per worker: the column it runs the closure on, and where
    ntris,      \* triangles delivered in this call
    nbatch,     \* invocations of the vertex callback in this call
    pre,        \* history: pixels when the call began
    count,      \* history: put_pixel calls per pixel in this call
    covered,    \* history: pixels some finished triangle of the call covers
    written,    \* history: pixels the current triangle has put
    sampled,    \* history: texels the current triangle sampled through a
                \* division by zero
    taken,      \* history: how often each column was handed to a worker
    done,       \* history: columns whose closure has returned
    calls,      \* draw calls that have returned
    characters, \* BufferGlyphs.characters: (char, size) -> CharacterDef
    returned,   \* the Character the last character() call returned
    nrequests,  \* character() calls made
    requested,  \* the key of the last character() call
    asked,      \* history: character() calls made, per key
    first,      \* history: what the first request for each key returned
    runs,       \* history: runs of the rasterizing closure, per key
    rasters,    \* history: rasterizations, per (glyph id, size)
    created,    \* the Result the last CreateTexture::create call returned
    over_color, \* the color last stored or layered: [f32; 4]
    under_color,\* the color it was layered over: [f32; 4]
    blended,    \* what layer_color returned for the two
    stored      \* what color_f32_rgba returned for over_color

rasterVars == <<pixels, used, pc, mode, color, tri, tex_tri, todo, workers,
                ntris, nbatch, pre, count, covered, written, sampled, taken, done,
                calls>>

glyphVars == <<characters, returned, nrequests, requested, asked, first, runs,
               rasters>>

createVars == <<created>>

colorVars == <<over_color, under_color, blended, stored>>

vars == <<rasterVars, glyphVars, createVars, colorVars>>

NoColumn == -1

IdleWorker == [col |-> NoColumn, y |-> 0, entered |-> FALSE, phase |-> "scan",
               under |-> <<0, 0, 0, 0>>, texel |-> <<0, 0>>]

\* lib.rs:80-85.  RenderBuffer::new: RgbaImage::new zeroes every channel.
NewPixels == [x \in Xs |-> [y \in Ys |-> <<0, 0, 0, 0>>]]

\* lib.rs:83 and 130-133.  One all-false BitVec of `height` bits per column.
FreshUsed == [x \in Xs |-> [y \in Ys |-> FALSE]]

ZeroCount == [x \in Xs |-> [y \in Ys |-> 0]]

\* A reset that leaves the bits of the call before in place.
reset_used_keeps(u) == u

\* lib.rs:130-133.  reset_used: a new all-false BitVec of `height` bits for
\* each of the `width` columns of self.inner, whatever self.used held.
reset_used(u) == FreshUsed

InitRaster ==
    /\ pixels = NewPixels
    /\ used = FreshUsed
    /\ pc = "idle"
    /\ mode = "none"
    /\ color = OpaqueWhite
    /\ tri = NoTriangle
    /\ tex_tri = NoTriangle
    /\ todo = {}
    /\ workers = [w \in Workers |-> IdleWorker]
    /\ ntris = 0
    /\ nbatch = 0
    /\ pre = NewPixels
    /\ count = ZeroCount
    /\ covered = {}
    /\ written = {}
    /\ sampled = {}
    /\ taken = [x \in Xs |-> 0]
    /\ done = {}
    /\ calls = 0

\* -------------------------------------------------------------- actions
\* lib.rs:119-121 and 231-235.  clear: every pixel becomes the converted color.
Clear(c) ==
    /\ pc = "idle"
    /\ pixels' = [x \in Xs |-> [y \in Ys |-> color_f32_rgba(c)]]
    /\ UNCHANGED <<used, pc, mode, color, tri, tex_tri, todo, workers, ntris,
                   nbatch, pre, count, covered, written, sampled, taken, done,
                   calls>>
    /\ UNCHANGED <<glyphVars, createVars, colorVars>>

\* lib.rs:127-129.  set_pixel: one pixel becomes the converted color; the
\* coverage bitmap is not touched.
set_pixel(x, y, c) ==
    /\ pc = "idle"
    /\ pixels' = [pixels EXCEPT ![x][y] = color_f32_rgba(c)]
    /\ UNCHANGED <<used, pc, mode, color, tri, tex_tri, todo, workers, ntris,
                   nbatch, pre, count, covered, written, sampled, taken, done,
                   calls>>
    /\ UNCHANGED <<glyphVars, createVars, colorVars>>

\* lib.rs:237-241.  Entry of tri_list: reset_used, then the callback f runs.
tri_list(c) ==
    /\ pc = "idle"
    /\ used' = reset_used(used)
    /\ pc' = "ready"
    /\ mode' = "flat"
    /\ color' = c
    /\ ntris' = 0
    /\ nbatch' = 0
    /\ pre' = pixels
    /\ count' = ZeroCount
    /\ covered' = {}
    /\ written' = {}
    /\ sampled' = {}
    /\ UNCHANGED <<pixels, tri, tex_tri, todo, workers, taken, done, calls>>
    /\ UNCHANGED <<glyphVars, createVars, colorVars>>

\* lib.rs:294-303.  Entry of tri_list_uv: reset_used, then the callback f runs.
tri_list_uv(c) ==
    /\ pc = "idle"
    /\ used' = reset_used(used)
    /\ pc' = "ready"
    /\ mode' = "uv"
    /\ color' = c
    /\ ntris' = 0
    /\ nbatch' = 0
    /\ pre' = pixels
    /\ count' = ZeroCount
    /\ covered' = {}
    /\ written' = {}
    /\ sampled' = {}
    /\ UNCHANGED <<pixels, tri, tex_tri, todo, workers, taken, done, calls>>
    /\ UNCHANGED <<glyphVars, createVars, colorVars>>

\* The rows the closure scans for one column, tl[1]..br[1].
RowLow(m, t) == TopLeft(t, 2)

RowHigh(m, t) == BottomRight(m, t, 2)

\* lib.rs:264 and 330-334.  The first row of the scan and the row after y.
FirstRow(m, t) ==
    IF m = "flat" \/ vertical_balance_top(t) THEN RowLow(m, t) ELSE RowHigh(m, t) - 1

NextRow(m, t, y) ==
    IF m = "flat" \/ vertical_balance_top(t) THEN y + 1 ELSE y - 1

\* lib.rs:244 and 306.  The next chunk of three vertices (with its uv chunk)
\* reaches the loop body, in the running callback invocation or in a new
\* one: its bounds are computed and its columns handed to the pool.
NextTriangle(t, tt, newBatch) ==
    /\ pc = "ready"
    /\ ntris < MaxTris
    /\ newBatch \/ nbatch > 0
    /\ tri' = t
    /\ tex_tri' = IF mode = "uv" THEN tt ELSE NoTriangle
    /\ todo' = TopLeft(t, 1)..(BottomRight(mode, t, 1) - 1)
    /\ ntris' = ntris + 1
    /\ nbatch' = IF newBatch THEN nbatch + 1 ELSE nbatch
    /\ written' = {}
    /\ sampled' = {}
    /\ taken' = [x \in Xs |-> 0]
    /\ done' = {}
    /\ pc' = "fill"
    /\ UNCHANGED <<pixels, used, mode, color, workers, pre, count, covered, calls>>
    /\ UNCHANGED <<glyphVars, createVars, colorVars>>

\* A parallel iterator that hands a column out and keeps it.
RemainingKeepsColumn(td, x) == td

\* lib.rs:262 and 328.  into_par_iter().for_each: what the iterator still
\* holds once column x has been handed out.
Remaining(td, x) == td \ {x}

\* A pool thread takes a column and enters the closure for it.
Take(w, x) ==
    /\ pc = "fill"
    /\ workers[w].col = NoColumn
    /\ x \in todo
    /\ todo' = Remaining(todo, x)
    /\ taken' = [taken EXCEPT ![x] = @ + 1]
    /\ IF RowLow(mode, tri) < RowHigh(mode, tri)
       THEN /\ workers' = [workers EXCEPT ![w] =
                              [IdleWorker EXCEPT !.col = x, !.y = FirstRow(mode, tri)]]
            /\ done' = done
       ELSE /\ workers' = workers
            /\ done' = done \cup {x}
    /\ UNCHANGED <<pixels, used, pc, mode, color, tri, tex_tri, ntris, nbatch,
                   pre, count, covered, written, sampled, calls>>
    /\ UNCHANGED <<glyphVars, createVars, colorVars>>

\* lib.rs:267.  used[x].get(y).unwrap_or(true)
UsedGet(u, x, y) == IF y \in DOMAIN u[x] THEN u[x][y] ELSE TRUE

\* A fill that never reads the coverage bit.
NeedsCompositeUnchecked(m, u, x, y) == TRUE

\* lib.rs:267 (tri_list) and 336-337 (tri_list_uv): whether a pixel inside
\* the triangle is composited.  tri_list_uv reads no coverage bit.
NeedsComposite(m, u, x, y) == IF m = "flat" THEN ~UsedGet(u, x, y) ELSE TRUE

\* A scan that leaves its column after the first row it looks at.
AdvanceLeaves(w, entered) ==
    /\ workers' = [workers EXCEPT ![w] = IdleWorker]
    /\ done' = done \cup {workers[w].col}

\* The worker moves to the next row, or leaves the closure after the last.
Advance(w, entered) ==
    LET me == workers[w]
        y2 == NextRow(mode, tri, me.y)
    IN  IF RowLow(mode, tri) <= y2 /\ y2 < RowHigh(mode, tri)
        THEN /\ workers' = [workers EXCEPT ![w] =
                               [IdleWorker EXCEPT !.col = me.col, !.y = y2,
                                                  !.entered = entered]]
             /\ done' = done
        ELSE /\ workers' = [workers EXCEPT ![w] = IdleWorker]
             /\ done' = done \cup {me.col}

\* lib.rs:286-288.  The break after leaving the triangle.
Break(w) ==
    /\ workers' = [workers EXCEPT ![w] = IdleWorker]
    /\ done' = done \cup {workers[w].col}

\* lib.rs:265-270 and 336-345.  One row of the closure up to its reads: the
\* membership test, the coverage bit, the texel and the pixel under it.
Scan(w) ==
    LET me == workers[w]
        x == me.col
        y == me.y
        mp == map_to_triangle(Centre(x, y), tri, tri_image_scale(tex_tri))
    IN  /\ pc = "fill"
        /\ x # NoColumn
        /\ me.phase = "scan"
        /\ IF triangle_contains(tri, Centre(x, y))
           THEN IF NeedsComposite(mode, used, x, y)
                THEN /\ \E tx \in (IF mode = "uv" THEN SampleCoords(mp) ELSE {<<0, 0>>}) :
                            workers' = [workers EXCEPT ![w] =
                                           [me EXCEPT !.entered = TRUE, !.phase = "write",
                                                      !.under = pixels[x][y], !.texel = tx]]
                     /\ sampled' = IF mode = "uv" /\ ~mp.finite
                                   THEN sampled \cup {<<x, y>>} ELSE sampled
                     /\ done' = done
                ELSE /\ Advance(w, TRUE)
                     /\ sampled' = sampled
           ELSE /\ IF me.entered THEN Break(w) ELSE Advance(w, FALSE)
                /\ sampled' = sampled
        /\ UNCHANGED <<pixels, used, pc, mode, color, tri, tex_tri, todo, ntris,
                       nbatch, pre, count, covered, written, taken, calls>>
        /\ UNCHANGED <<glyphVars, createVars, colorVars>>

\* lib.rs:270 and 344-346.  The color put at a pixel.
Layered(m, c, texel, under) ==
    LET over == IF m = "flat" THEN c
                ELSE color_mul(c, color_rgba_f32(Texture[texel[1]][texel[2]]))
    IN  color_f32_rgba(layer_color(over, color_rgba_f32(under)))

\* lib.rs:271-284 and 347-356.  put_pixel and used[x].set(y, true).
Write(w) ==
    LET me == workers[w]
        x == me.col
        y == me.y
    IN  /\ pc = "fill"
        /\ x # NoColumn
        /\ me.phase = "write"
        /\ pixels' = [pixels EXCEPT ![x][y] = Layered(mode, color, me.texel, me.under)]
        /\ used' = [used EXCEPT ![x][y] = TRUE]
        /\ count' = [count EXCEPT ![x][y] = @ + 1]
        /\ written' = written \cup {<<x, y>>}
        /\ Advance(w, TRUE)
        /\ UNCHANGED <<pc, mode, color, tri, tex_tri, todo, ntris, nbatch, pre,
                       covered, sampled, taken, calls>>
        /\ UNCHANGED <<glyphVars, createVars, colorVars>>

\* The bounding box of the three vertices alone: low edges floor, high
\* edges ceil.
VertexLow(t, i) == FloorHalf(Min2(t[1][i], Min2(t[2][i], t[3][i])))

VertexHigh(t, i) == CeilHalf(Max2(t[1][i], Max2(t[2][i], t[3][i])))

\* The pixels of the buffer that triangle t covers: in its box, and inside.
CoveredBy(t) ==
    {p \in Xs \X Ys :
        /\ VertexLow(t, 1) <= p[1] /\ p[1] < VertexHigh(t, 1)
        /\ VertexLow(t, 2) <= p[2] /\ p[2] < VertexHigh(t, 2)
        /\ triangle_contains(t, Centre(p[1], p[2]))}

\* lib.rs:290 and 361.  for_each returns: every column's closure has run.
Join ==
    /\ pc = "fill"
    /\ todo = {}
    /\ \A w \in Workers : workers[w].col = NoColumn
    /\ pc' = "ready"
    /\ covered' = covered \cup CoveredBy(tri)
    /\ tri' = NoTriangle
    /\ tex_tri' = NoTriangle
    /\ written' = {}
    /\ sampled' = {}
    /\ UNCHANGED <<pixels, used, mode, color, todo, workers, ntris, nbatch, pre,
                   count, taken, done, calls>>
    /\ UNCHANGED <<glyphVars, createVars, colorVars>>

\* lib.rs:293 and 364.  f returns and the draw call with it.
Return ==
    /\ pc = "ready"
    /\ pc' = "idle"
    /\ calls' = calls + 1
    /\ UNCHANGED <<pixels, used, mode, color, tri, tex_tri, todo, workers, ntris,
                   nbatch, pre, count, covered, written, sampled, taken, done>>
    /\ UNCHANGED <<glyphVars, createVars, colorVars>>

\* ---------------------------------------------------------- glyph cache
MaxFontSize == 2
MaxRequests == 4

\* The characters a caller asks for.  The font maps "a", "b" and the
\* replacement character U+FFFD (written "R") to glyphs of their own; "x"
\* and "y" have none and map to glyph 0, which has no outline.
Chars == {"a", "b", "x", "y", "R"}

Replacement == "R"

FontSizes == 1..MaxFontSize

Keys == Chars \X FontSizes

\* rusttype: Font::glyph(ch).id()
GlyphIdOf(ch) == CASE ch = "a" -> 1 [] ch = "b" -> 2 [] ch = "R" -> 3 [] OTHER -> 0

\* rusttype: ScaledGlyph::shape().is_some()
HasShape(id) == id # 0

GlyphIds == {GlyphIdOf(ch) : ch \in Chars}

\* A closure without the fallback: it rasterizes whatever glyph ch maps to.
GlyphForNoFallback(ch) == GlyphIdOf(ch)

\* glyphs.rs:66-71.  The glyph the closure rasterizes for ch.
GlyphFor(ch) ==
    LET id == GlyphIdOf(ch)
    IN  IF id = 0 /\ ~HasShape(id) THEN GlyphIdOf(Replacement) ELSE id

\* glyphs.rs:72-96.  The CharacterDef built from glyph id at font_size: its
\* metrics scale with the size, and its texture is the glyph's coverage
\* drawn into a buffer two pixels larger than the pixel bounding box.
Rasterize(id, font_size) ==
    [offset |-> <<id * font_size - 1, id * font_size + 1>>,
     size |-> <<(id + 1) * font_size, 0>>,
     texture |-> [width |-> id * font_size + 2, height |-> font_size + 2,
                  glyph |-> id, scale |-> font_size]]

NoCharacter == [offset |-> <<0, 0>>, size |-> <<0, 0>>,
                texture |-> [width |-> 0, height |-> 0, glyph |-> 0, scale |-> 0]]

NoKey == <<Replacement, 0>>

\* glyphs.rs:37-49.  BufferGlyphs::from_font: an empty map.
InitGlyphs ==
    /\ characters = <<>>
    /\ returned = NoCharacter
    /\ nrequests = 0
    /\ requested = NoKey
    /\ asked = [k \in Keys |-> 0]
    /\ first = <<>>
    /\ runs = [k \in Keys |-> 0]
    /\ rasters = [g \in GlyphIds \X FontSizes |-> 0]

\* A cache that rasterizes and inserts on every request.
VacantAlways(chars, key) == TRUE

\* glyphs.rs:63-64.  entry(key).or_insert_with(f): f runs on a vacant entry.
Vacant(chars, key) == key \notin DOMAIN chars

\* glyphs.rs:55-98.  CharacterCache::character.
character(font_size, ch) ==
    LET key == <<ch, font_size>>
        def == Rasterize(GlyphFor(ch), font_size)
        miss == Vacant(characters, key)
        entry == IF miss THEN def ELSE characters[key]
    IN  /\ nrequests < MaxRequests
        /\ nrequests' = nrequests + 1
        /\ requested' = key
        /\ asked' = [asked EXCEPT ![key] = @ + 1]
        /\ characters' = IF miss
                         THEN [k \in DOMAIN characters \cup {key} |->
                                  IF k = key THEN def ELSE characters[k]]
                         ELSE characters
        /\ runs' = IF miss THEN [runs EXCEPT ![key] = @ + 1] ELSE runs
        /\ rasters' = IF miss
                      THEN [rasters EXCEPT ![<<GlyphFor(ch), font_size>>] = @ + 1]
                      ELSE rasters
        /\ returned' = entry
        /\ first' = IF key \in DOMAIN first THEN first
                    ELSE [k \in DOMAIN first \cup {key} |->
                             IF k = key THEN entry ELSE first[k]]
        /\ UNCHANGED <<rasterVars, createVars, colorVars>>

\* ----------------------------------------------------- texture creation
MaxDim == 2
MaxBytes == 20

\* The bytes of one Rgba<u8> pixel.
Channels == 4

\* A from_raw that turns away a container of exactly the pixels' size.
from_raw_fits_strict(width, height, len) == width * height * Channels < len

\* lib.rs:156.  RgbaImage::from_raw(width, height, buf).is_some(): the image
\* crate accepts a container that holds at least width * height pixels.
from_raw_fits(width, height, len) == width * height * Channels <= len

NoResult == [tag |-> "none", width |-> 0, height |-> 0, len |-> 0, area |-> 0]

InitCreate == created = NoResult

\* lib.rs:147-161.  CreateTexture::create: the buffer keeps the container
\* it was given, or the error carries its length and the pixel count.
\* width and height record the size argument in either case.
create(width, height, len) ==
    /\ created' = IF from_raw_fits(width, height, len)
                  THEN [tag |-> "Ok", width |-> width, height |-> height,
                        len |-> len, area |-> 0]
                  ELSE [tag |-> "SizeMismatch", width |-> width, height |-> height,
                        len |-> len, area |-> width * height]
    /\ UNCHANGED <<rasterVars, glyphVars, colorVars>>

\* ------------------------------------------------- colors on their own
\* Channel values between 0 and 1, some of them between two bytes.
Levels == {FZero, <<1, 4>>, <<1, 2>>, <<999, 1000>>, FOne}

\* The colors the conversions are applied to.
Colors == {<<r, a, FSub(FOne, r), a>> : r \in Levels, a \in Levels}

NoColor == <<>>

InitColors ==
    /\ over_color = NoColor
    /\ under_color = NoColor
    /\ blended = NoColor
    /\ stored = NoColor

\* lib.rs:128, 233 and 276.  A color on its way into the image:
\* color_f32_rgba(&color).
Store(c) ==
    /\ over_color' = c
    /\ under_color' = NoColor
    /\ stored' = color_f32_rgba(c)
    /\ blended' = NoColor
    /\ UNCHANGED <<rasterVars, glyphVars, createVars>>

\* lib.rs:270 and 346.  layer_color(&color, &under_color).
Layer(c, d) ==
    /\ over_color' = c
    /\ under_color' = d
    /\ blended' = layer_color(c, d)
    /\ stored' = NoColor
    /\ UNCHANGED <<rasterVars, glyphVars, createVars>>

\* ------------------------------------------------------- specifications
Init == InitRaster /\ InitGlyphs /\ InitCreate /\ InitColors

Next ==
    \/ \E c \in ClearColors : Clear(c)
    \/ \E c \in DrawColors : calls < MaxCalls /\ tri_list(c)
    \/ \E c \in DrawColors : calls < MaxCalls /\ tri_list_uv(c)
    \/ \E t \in Triangles, tt \in TexTriangles, nb \in BOOLEAN : NextTriangle(t, tt, nb)
    \/ \E w \in Workers, x \in Xs : Take(w, x)
    \/ \E w \in Workers : Scan(w)
    \/ \E w \in Workers : Write(w)
    \/ Join
    \/ Return

Spec == Init /\ [][Next]_vars

\* A buffer drawn to by several calls in a row, one triangle a call, with
\* clear and set_pixel between the calls.
MaxDraws == 2

\* Two triangles that overlap: the upper-left half of the buffer, and all
\* of it left of the diagonal.
CallTriangles ==
    {<<<<-1, -1>>, <<Far(1), -1>>, <<-1, Far(2)>>>>,
     <<<<-1, -1>>, <<Far(1), Far(2)>>, <<-1, Far(2)>>>>}

\* The pixel set_pixel is called on between the calls.
SetPixels == {<<0, 0>>}

NextCalls ==
    \/ \E c \in ClearColors : Clear(c)
    \/ \E p \in SetPixels, c \in DrawColors : set_pixel(p[1], p[2], c)
    \/ \E c \in DrawColors : calls < MaxDraws /\ tri_list(c)
    \/ \E c \in DrawColors : calls < MaxDraws /\ tri_list_uv(c)
    \/ \E t \in CallTriangles, tt \in TexTriangles :
          ntris = 0 /\ NextTriangle(t, tt, TRUE)
    \/ \E w \in Workers, x \in Xs : Take(w, x)
    \/ \E w \in Workers : Scan(w)
    \/ \E w \in Workers : Write(w)
    \/ Join
    \/ Return

SpecCalls == Init /\ [][NextCalls]_vars

NextColors ==
    \/ \E c \in Colors : Store(c)
    \/ \E c \in Colors, d \in Colors : Layer(c, d)

SpecColors == Init /\ [][NextColors]_vars

NextGlyphs == \E s \in FontSizes, ch \in Chars : character(s, ch)

SpecGlyphs == Init /\ [][NextGlyphs]_vars

NextCreate == \E w \in 0..MaxDim, h \in 0..MaxDim, n \in 0..MaxBytes : create(w, h, n)

SpecCreate == Init /\ [][NextCreate]_vars

\* --------------------------------------------------------------- claims
Pixels == Xs \X Ys

\* The parallel loop of the current triangle has handed out every column
\* and every closure has returned; the call thread has not yet moved on.
FillComplete ==
    /\ pc = "fill"
    /\ todo = {}
    /\ \A w \in Workers : workers[w].col = NoColumn

\* The draw color layered once over the pixel's value at the start of the call.
SingleBlend(p) == color_f32_rgba(layer_color(color, color_rgba_f32(pre[p[1]][p[2]])))

DoubleBlend(p) == color_f32_rgba(layer_color(color, color_rgba_f32(SingleBlend(p))))

\* C1: in a tri_list call no pixel is composited more than once, and once a
\* triangle's fill is over every pixel it covers holds the draw color
\* layered once over the value the pixel had when the call began.
C1_FlatSingleBlend ==
    mode = "flat" /\ pc \in {"ready", "fill"} =>
        /\ \A p \in Pixels : count[p[1]][p[2]] <= 1
        /\ \A p \in covered : pixels[p[1]][p[2]] = SingleBlend(p)

\* Two triangles of one tri_list call, delivered in two batches, both cover
\* a pixel; the second fill is over and the pixel was composited once.
C1_Witness ==
    /\ mode = "flat"
    /\ FillComplete
    /\ ntris = 2
    /\ nbatch = 2
    /\ \E p \in covered \cap CoveredBy(tri) :
          /\ count[p[1]][p[2]] = 1
          /\ p \notin written
          /\ pixels[p[1]][p[2]] = SingleBlend(p)
          /\ SingleBlend(p) # DoubleBlend(p)

\* C2: in a tri_list_uv call no pixel is composited more than once.
C2_UvAtMostOnce ==
    mode = "uv" /\ pc \in {"ready", "fill"} =>
        \A p \in Pixels : count[p[1]][p[2]] <= 1

\* The columns of the current triangle's clipped bounding box.
Columns == TopLeft(tri, 1)..(BottomRight(mode, tri, 1) - 1)

\* C3: during a triangle's parallel fill every column is handed out at most
\* once, no two workers are ever in the same column (so no two touch the
\* same pixel or coverage bit), no worker runs outside the parallel loop,
\* and when the loop is over every column of the box has been processed
\* exactly once.
C3_ColumnOwnership ==
    /\ \A x \in Xs : taken[x] <= 1
    /\ \A v, w \in Workers :
          v # w /\ workers[v].col # NoColumn => workers[v].col # workers[w].col
    /\ pc # "fill" => todo = {} /\ \A w \in Workers : workers[w].col = NoColumn
    /\ pc = "fill" =>
          /\ \A w \in Workers : workers[w].col # NoColumn => workers[w].col \in Columns
          /\ todo \cup done \subseteq Columns
    /\ FillComplete => done = Columns /\ \A x \in Columns : taken[x] = 1
    /\ pc = "ready" => done = {x \in Xs : taken[x] = 1}

\* Two workers are inside the closure at once, each about to write a pixel
\* of its own column.
C3_Witness ==
    /\ pc = "fill"
    /\ \E v, w \in Workers :
          /\ v # w
          /\ workers[v].phase = "write"
          /\ workers[w].phase = "write"
          /\ workers[v].col # workers[w].col

\* Three collinear or coincident vertices: the barycentric denominator is 0.
ZeroArea(t) == sign(t[1], t[2], t[3]) = 0

\* C4: tri_list_uv skips a destination triangle of zero area: it writes no
\* pixel, sets no coverage bit and samples no texel through the division
\* by zero.
C4_UvDegenerateSkipped ==
    mode = "uv" /\ pc = "fill" /\ ZeroArea(tri) =>
        /\ written = {}
        /\ sampled = {}
        /\ \A w \in Workers : workers[w].phase # "write"

\* lib.rs:262-290 run for one column on an all-false coverage bitmap: the
\* rows from y on that the scan composites, given whether it has entered.
RECURSIVE FlatColumn(_, _, _, _)
FlatColumn(t, x, y, entered) ==
    IF y >= FlatBottomRight(t, 2) THEN {}
    ELSE IF triangle_contains(t, Centre(x, y))
         THEN {<<x, y>>} \cup FlatColumn(t, x, y + 1, TRUE)
         ELSE IF entered THEN {} ELSE FlatColumn(t, x, y + 1, FALSE)

\* lib.rs:244-290.  The pixels tri_list composites for one triangle on an
\* all-false coverage bitmap.
FlatFill(t) ==
    UNION {FlatColumn(t, x, TopLeft(t, 2), FALSE) :
              x \in TopLeft(t, 1)..(FlatBottomRight(t, 1) - 1)}

\* C5: on a fresh coverage bitmap tri_list_uv composites exactly the pixels
\* tri_list composites for the same destination triangle.
C5_UvFillsWhatFlatFills ==
    mode = "uv" /\ FillComplete /\ ntris = 1 => written = FlatFill(tri)

\* C6: a triangle's fill writes no pixel outside the buffer or outside the
\* bounding box of its three vertices (low edges floor, high edges ceil).
C6_BoxContainment ==
    pc = "fill" =>
        \A p \in written :
            /\ p \in Pixels
            /\ VertexLow(tri, 1) <= p[1] /\ p[1] <= VertexHigh(tri, 1)
            /\ VertexLow(tri, 2) <= p[2] /\ p[2] <= VertexHigh(tri, 2)

\* C7: tri_list composites the same pixels for a triangle and for the same
\* triangle with its vertices in the reverse order.
C7_WindingAgnostic ==
    mode = "flat" /\ FillComplete /\ ntris = 1 =>
        written = FlatFill(<<tri[1], tri[3], tri[2]>>)

\* The bytes width x height pixels take.
Needed(r) == r.width * r.height * Channels

\* C8 as stated: a container whose length differs from width * height * 4,
\* shorter or longer, is turned away, so every buffer built holds exactly
\* width * height * 4 bytes.
C8_AnyMismatchRejected ==
    /\ created.tag # "none" /\ created.len # Needed(created) =>
          created.tag = "SizeMismatch"
    /\ created.tag = "Ok" => created.len = Needed(created)

\* C8 as amended: a container shorter than width * height * 4 bytes gives
\* Error::SizeMismatch(length, width * height) and no buffer; any other is
\* accepted, so every buffer built holds at least width * height * 4 bytes.
C8_ShortContainerRejected ==
    /\ created.tag # "none" /\ created.len < Needed(created) =>
          /\ created.tag = "SizeMismatch"
          /\ created.area = created.width * created.height
    /\ created.tag # "none" /\ created.len >= Needed(created) => created.tag = "Ok"
    /\ created.tag = "Ok" => created.len >= Needed(created)

\* A non-empty container one byte short of its pixels was turned away.
C8_Witness ==
    /\ created.tag = "SizeMismatch"
    /\ created.len > 0
    /\ created.len + 1 = Needed(created)

\* C9: each key is rasterized at most once, an entry once made stays as it
\* was first returned, and every request returns what the first request
\* for its key returned.
C9_Memoized ==
    /\ \A k \in Keys :
          /\ runs[k] <= 1
          /\ k \in DOMAIN first =>
                k \in DOMAIN characters /\ characters[k] = first[k]
          /\ k \in DOMAIN characters => runs[k] = 1 /\ asked[k] >= 1
    /\ requested \in DOMAIN first => returned = first[requested]

\* A key was requested again after other keys had been cached, and was
\* served from the cache.
C9_Witness ==
    /\ requested \in Keys
    /\ asked[requested] >= 2
    /\ runs[requested] = 1
    /\ returned = first[requested]
    /\ \E k \in DOMAIN characters : k # requested

\* The characters the font has no outline for.
Missing == {ch \in Chars : GlyphIdOf(ch) = 0}

\* C10 as stated: a request for a character without an outline returns
\* the replacement character's glyph at that size, and that glyph is
\* rasterized at most once per size, however many missing characters are
\* requested.
C10_ReplacementRasterizedOnce ==
    /\ requested \in Missing \X FontSizes =>
          returned = Rasterize(GlyphIdOf(Replacement), requested[2])
    /\ \A s \in FontSizes : rasters[<<GlyphIdOf(Replacement), s>>] <= 1

\* The cached keys whose entry holds the replacement glyph at size s.
ReplacementKeys(s) ==
    {k \in DOMAIN characters : k[2] = s /\ GlyphFor(k[1]) = GlyphIdOf(Replacement)}

\* C10 as amended: a request for a character without an outline returns
\* the replacement character's glyph at that size, cached under the
\* requested character's key; the replacement glyph is rasterized once for
\* every cached key that holds it, so once per missing character and size.
C10_ReplacementPerRequestedKey ==
    /\ requested \in Missing \X FontSizes =>
          /\ returned = Rasterize(GlyphIdOf(Replacement), requested[2])
          /\ requested \in DOMAIN characters
          /\ characters[requested] = returned
    /\ \A s \in FontSizes :
          rasters[<<GlyphIdOf(Replacement), s>>] = Cardinality(ReplacementKeys(s))

\* Two missing characters were requested at one size, one of them twice:
\* the replacement glyph was rasterized for each of the two keys.
C10_Witness ==
    /\ requested \in Missing \X FontSizes
    /\ asked[requested] >= 2
    /\ rasters[<<GlyphIdOf(Replacement), requested[2]>>] = 2
    /\ <<Replacement, requested[2]>> \notin DOMAIN characters

\* The draw color layered once over zeroed pixels: what a pixel of a new
\* buffer holds after one call composited it.
DrawnOnce == color_f32_rgba(layer_color(HalfRed, color_rgba_f32(<<0, 0, 0, 0>>)))

\* C11: the coverage bitmap always has one bit per pixel of the buffer; a
\* draw call starts with every bit false; during a call a bit is true
\* exactly when its pixel was composited in that call; and a tri_list
\* call's first triangle composites every pixel it would composite on a
\* new buffer, whatever calls, clears and set_pixels came before.
C11_CoverageLifecycle ==
    /\ DOMAIN used = Xs
    /\ \A x \in Xs : DOMAIN used[x] = Ys
    /\ pc = "ready" /\ ntris = 0 => used = FreshUsed
    /\ pc \in {"ready", "fill"} =>
          \A p \in Pixels : used[p[1]][p[2]] <=> count[p[1]][p[2]] > 0
    /\ mode = "flat" /\ FillComplete /\ ntris = 1 =>
          /\ written = FlatFill(tri)
          /\ \A p \in written : pixels[p[1]][p[2]] = SingleBlend(p)

\* A second tri_list call has filled its triangle, and composited again a
\* pixel that the call before had composited and marked.
C11_Witness ==
    /\ calls = 1
    /\ mode = "flat"
    /\ FillComplete
    /\ \E p \in written :
          /\ pre[p[1]][p[2]] = DrawnOnce
          /\ pixels[p[1]][p[2]] = SingleBlend(p)
          /\ pixels[p[1]][p[2]] # DrawnOnce
          /\ used[p[1]][p[2]]

\* round(v * 255) of a channel value v between 0 and 1, halves upward.
RoundByte(v) == (2 * ByteMax * v[1] + v[2]) \div (2 * v[2])

\* C12: the byte stored for a channel value v in [0, 1] is round(v * 255),
\* to nearest, in all four channels.
C12_RoundsToNearest ==
    stored # NoColor =>
        stored = <<RoundByte(over_color[1]), RoundByte(over_color[2]),
                   RoundByte(over_color[3]), RoundByte(over_color[4])>>

\* C13: layering a color of alpha 1 over any color gives the over color
\* back in all four channels, alpha included.
C13_OpaqueOverwrite ==
    blended # NoColor /\ over_color[4] = FOne => blended = over_color

\* An opaque color was layered over a different opaque color: the sum in
\* quadrature of the alphas is above 1 and was clamped.
C13_Witness ==
    /\ blended # NoColor
    /\ over_color[4] = FOne
    /\ under_color[4] = FOne
    /\ under_color[1] # over_color[1]
    /\ under_color[3] # over_color[3]
    /\ FLess(FOne, FAdd(FMul(over_color[4], over_color[4]),
                        FMul(under_color[4], under_color[4])))
    /\ blended = over_color

\* The pixels of triangle t's clipped bounding box, tl..br of tri_list.
ClippedBox(t) ==
    (TopLeft(t, 1)..(FlatBottomRight(t, 1) - 1)) \X
        (TopLeft(t, 2)..(FlatBottomRight(t, 2) - 1))

\* Those of them whose centre passes the three-edge-sign test.
Inside(t) == {p \in ClippedBox(t) : triangle_contains(t, Centre(p[1], p[2]))}

\* The triangle (0,0)-(100,0)-(0,100), in half pixels.
Hundred == <<<<0, 0>>, <<200, 0>>, <<0, 200>>>>

\* C14: in tri_list, once a column's scan has returned every pixel of the
\* column that is in the clipped bounding box and inside the triangle is
\* marked, and once the fill is over every such pixel has been composited
\* exactly once in the call (by this triangle when it is the call's
\* first), early exit or not; and the triangle (0,0)-(100,0)-(0,100)
\* contains the centres (10,10) and (90,5) and not (95,95).
C14_ScanComplete ==
    /\ mode = "flat" /\ pc = "fill" =>
          \A p \in Inside(tri) : p[1] \in done => used[p[1]][p[2]]
    /\ mode = "flat" /\ FillComplete =>
          \A p \in Inside(tri) :
              /\ used[p[1]][p[2]]
              /\ count[p[1]][p[2]] = 1
              /\ pixels[p[1]][p[2]] = SingleBlend(p)
              /\ ntris = 1 => p \in written
    /\ triangle_contains(Hundred, Centre(10, 10))
    /\ triangle_contains(Hundred, Centre(90, 5))
    /\ ~triangle_contains(Hundred, Centre(95, 95))

\* A call's first triangle is filled; in one column the scan composited a
\* pixel inside the triangle and then met a pixel outside it, below, with
\* another row of the box still to go: the early exit was taken.
C14_Witness ==
    /\ mode = "flat"
    /\ FillComplete
    /\ ntris = 1
    /\ written = Inside(tri)
    /\ \E p \in written, q \in ClippedBox(tri) :
          /\ q[1] = p[1]
          /\ q[2] > p[2]
          /\ q[2] + 1 < FlatBottomRight(tri, 2)
          /\ q \notin Inside(tri)
          /\ q \notin written

=============================================================================
